---- MODULE Spec2Model ----
(***************************************************************************)
(* The tutorial synchronizer of the release notebook                       *)
(* (src/unnamed/part_000): the first code cell lists the released archive  *)
(* and the workspace, computes the lists refreshed / added / removed and   *)
(* prints them; the second code cell reads the version marker, asks for a  *)
(* confirmation line and then copies and removes files.                    *)
(*                                                                         *)
(* A document identifier (basename) is a number of 1..MaxId; the numbers   *)
(* are in the sort order of the names.  InitBase and ZzzBase stand for     *)
(* "init.ipynb" and "zzz_for_maintainers.ipynb": as among the names, there *)
(* is an identifier before InitBase ("index.ipynb"), one between the two   *)
(* (the tutorials) and one after ZzzBase.  A path is a record of a         *)
(* directory and a basename.  A text (the confirmation line, the version   *)
(* marker) is a sequence of one-character strings.                         *)
(***************************************************************************)
EXTENDS Integers, Sequences, FiniteSets

\* The number of document identifiers of the model.
MaxId == 5

Ids == 1..MaxId

\* The number of times the first cell is executed before the second one.
MaxPlanRuns == 2

\* "init.ipynb" and "zzz_for_maintainers.ipynb" of the exclusion list, at
\* their places in the sort order of the names.
InitBase == 2
ZzzBase == 4

WorkDir == "/work"
ArchiveDir == "/opt/drake/share/drake/tutorials"

\* The content of a store entry: Absent, or a content tag.
Absent == 0
\* The content of the released document `base`.
ReleasedContent(base) == base
\* The content of the workspace document `base` before the run.
StaleContent(base) == MaxId + base
\* The content of the workspace document `base` that a copy which failed
\* after opening it has left: truncated, with none or a part of the released
\* bytes.
PartialContent(base) == 2 * MaxId + base

\* ---- paths ------------------------------------------------------------

workspace_path(base) == [dir |-> WorkDir, base |-> base]

archive_path(base) == [dir |-> ArchiveDir, base |-> base]

basename(path) == path.base

\* ---- texts ------------------------------------------------------------

Yes == <<"y", "e", "s">>

\* Lines a user may type at the prompt, besides the displayed version.
TypedLines ==
    { Yes,
      <<"Y", "e", "s">>,
      <<"Y", "E", "S">>,
      <<"y", "e", "s", " ">>,
      <<>> }

\* Contents of VERSION.TXT: a date stamp followed by more text, or a
\* truncated stamp.
VersionTexts ==
    { <<"2", "0", "2", "2", "1", "1", "1", "6", "0", "8">>,
      <<"2", "0", "2", "2">> }

VersionFiles ==
    { [exists |-> TRUE, text |-> t] : t \in VersionTexts }
        \cup { [exists |-> FALSE, text |-> <<>>] }

\* text[:n]
Prefix(text, n) == SubSeq(text, 1, IF Len(text) < n THEN Len(text) ELSE n)

\* ---- names bound in the kernel by the notebook's import statements ----

BoundNames == {"glob", "basename", "shutil"}

\* ---- lists --------------------------------------------------------------

InList(x, list) == \E k \in 1..Len(list) : list[k] = x

Elems(list) == { list[k] : k \in 1..Len(list) }

Min(S) == CHOOSE x \in S : \A y \in S : x <= y

RECURSIVE SortedIds(_)
\* The ascending list of a set of identifiers.
SortedIds(S) ==
    IF S = {} THEN <<>>
    ELSE LET m == Min(S) IN <<m>> \o SortedIds(S \ {m})

RECURSIVE sorted(_)
\* sorted(list): the paths of one directory, ascending by name.
sorted(list) ==
    IF list = <<>> THEN <<>>
    ELSE LET k == CHOOSE k \in 1..Len(list) :
                     \A j \in 1..Len(list) : list[k].base <= list[j].base
         IN  <<list[k]>>
                 \o sorted(SubSeq(list, 1, k - 1) \o SubSeq(list, k + 1, Len(list)))

RECURSIVE Listings(_)
\* The lists glob may return for a set of matching paths: the order of a
\* directory scan is not specified, so every order of the paths.
Listings(paths) ==
    IF paths = {} THEN {<<>>}
    ELSE UNION { { <<p>> \o l : l \in Listings(paths \ {p}) } : p \in paths }

\* glob(<dir>/*.ipynb) on a store: the paths of the entries present.
glob(dirpath, store) ==
    { [dir |-> dirpath.dir, base |-> b] : b \in { i \in Ids : store[i] # Absent } }

ExcludedPaths == { workspace_path(InitBase), workspace_path(ZzzBase) }

\* Mutant: the listing of the archive is not sorted.
released_paths_unsorted(listing) == listing

\* released_paths = sorted(glob(archive_path("*.ipynb")))
released_paths(listing) == sorted(listing)

\* Mutant: the exclusion list is not applied.
current_paths_unfiltered(listing) == sorted(listing)

\* current_paths = sorted([x for x in glob(workspace_path("*.ipynb"))
\*                         if x not in [<the two excluded paths>]])
current_paths(listing) ==
    sorted(SelectSeq(listing, LAMBDA x : x \notin ExcludedPaths))

\* [basename(x) for x in paths]
Basenames(paths) == [k \in 1..Len(paths) |-> basename(paths[k])]

\* Mutant: the membership test of refreshed is dropped.
RefreshedUnfiltered(current, released) == current

\* refreshed = [name for name in current if name in released]
Refreshed(current, released) ==
    SelectSeq(current, LAMBDA name : InList(name, released))

\* Mutant: the membership test of added is dropped.
AddedUnfiltered(current, released) == released

\* added = [name for name in released if name not in current]
Added(current, released) ==
    SelectSeq(released, LAMBDA name : ~InList(name, current))

\* Mutant: the membership test of removed is dropped.
RemovedUnfiltered(current, released) == current

\* removed = [name for name in current if name not in released]
Removed(current, released) ==
    SelectSeq(current, LAMBDA name : ~InList(name, released))

\* Mutant: the added documents are copied before the refreshed ones.
ToCopyAddedFirst(refr, add) == add \o refr

\* Mutant: only the added documents are copied.
ToCopyAddedOnly(refr, add) == add

\* to_copy = refreshed + added
ToCopy(refr, add) == refr \o add

\* ---- console lines ------------------------------------------------------

Line(text, base, str) == [text |-> text, base |-> base, str |-> str]

\* Mutant: the last element of a list is not printed.
print_list_drop_last(heading, items) ==
    <<Line(heading, 0, <<>>)>>
        \o (IF items = <<>> THEN <<Line(" (None)", 0, <<>>)>> ELSE <<>>)
        \o [k \in 1..(Len(items) - 1) |-> Line("- ", items[k], <<>>)]
        \o <<Line("", 0, <<>>)>>

\* Mutant: the placeholder of an empty list is not printed.
print_list_no_placeholder(heading, items) ==
    <<Line(heading, 0, <<>>)>>
        \o [k \in 1..Len(items) |-> Line("- ", items[k], <<>>)]
        \o <<Line("", 0, <<>>)>>

\* print_list(heading, items)
print_list(heading, items) ==
    <<Line(heading, 0, <<>>)>>
        \o (IF items = <<>> THEN <<Line(" (None)", 0, <<>>)>> ELSE <<>>)
        \o [k \in 1..Len(items) |-> Line("- ", items[k], <<>>)]
        \o <<Line("", 0, <<>>)>>

\* ---- state --------------------------------------------------------------

VARIABLES
    archive,     \* the released archive: identifier -> content
    work,        \* the workspace: identifier -> content
    archive0,    \* the archive when the run started
    work0,       \* the workspace when the run started
    versionTxt,  \* VERSION.TXT
    pc,          \* position of the run
    refreshed, added, removed,   \* the plan
    to_copy,
    copyIdx,     \* position of the copy loop in to_copy
    removeIdx,   \* position of the remove loop in removed
    yyyymmdd,    \* the displayed version
    response,    \* the confirmation line
    error,       \* the exception that ended the run, or "none"
    ops,         \* the file operations attempted, in order
    out,         \* the console
    planRuns,    \* the number of executions of the first cell in this run
    prevPlan,    \* the plan computed before the last one
    prevOps,     \* the file operations attempted by the run before this one
    prevPc,      \* how the run before this one ended, or "none"
    rerun        \* this run is a re-run from scratch

vars == <<archive, work, archive0, work0, versionTxt, pc, refreshed, added,
          removed, to_copy, copyIdx, removeIdx, yyyymmdd, response, error,
          ops, out, planRuns, prevPlan, prevOps, prevPc, rerun>>

stores == <<archive, work, archive0, work0, versionTxt>>
plan == <<refreshed, added, removed>>
reruns == <<planRuns, prevPlan, prevOps, prevPc, rerun>>

\* Mutants of the confirmation test: the displayed version as the expected
\* token; a comparison that ignores case; no test at all.
CancelsUnlessVersion(resp) == resp # yyyymmdd

CancelsIgnoringCase(resp) ==
    resp \notin {Yes, <<"Y", "e", "s">>, <<"Y", "E", "S">>}

CancelsNever(resp) == FALSE

\* if response != "yes": raise RuntimeError("Cancelled")
Cancels(resp) == resp # Yes

Op(kind, base, ok) == [op |-> kind, base |-> base, ok |-> ok]

Init ==
    /\ archive \in { [i \in Ids |-> IF i \in S THEN ReleasedContent(i) ELSE Absent] :
                       S \in SUBSET Ids }
    /\ work \in { [i \in Ids |-> IF i \in S THEN StaleContent(i) ELSE Absent] :
                       S \in SUBSET Ids }
    /\ archive0 = archive
    /\ work0 = work
    /\ versionTxt \in VersionFiles
    /\ pc = "start"
    /\ refreshed = <<>>
    /\ added = <<>>
    /\ removed = <<>>
    /\ to_copy = <<>>
    /\ copyIdx = 1
    /\ removeIdx = 1
    /\ yyyymmdd = <<>>
    /\ response = <<>>
    /\ error = "none"
    /\ ops = <<>>
    /\ out = <<>>
    /\ planRuns = 0
    /\ prevPlan = <<<<>>, <<>>, <<>>>>
    /\ prevOps = <<>>
    /\ prevPc = "none"
    /\ rerun = FALSE

\* The first cell up to the three lists.
ComputePlan ==
    /\ pc = "start"
    /\ \E released \in { Basenames(released_paths(listing)) :
                             listing \in Listings(glob(archive_path(0), archive)) },
          current \in { Basenames(current_paths(listing)) :
                            listing \in Listings(glob(workspace_path(0), work)) } :
         /\ refreshed' = Refreshed(current, released)
         /\ added' = Added(current, released)
         /\ removed' = Removed(current, released)
    /\ pc' = "planned"
    /\ planRuns' = planRuns + 1
    /\ prevPlan' = (IF planRuns = 0 THEN prevPlan ELSE <<refreshed, added, removed>>)
    /\ UNCHANGED <<stores, to_copy, copyIdx, removeIdx, yyyymmdd, response,
                   error, ops, out, prevOps, prevPc, rerun>>

\* Mutant: the first cell already deletes the removed documents.
ReportPlanApplying ==
    /\ pc = "planned"
    /\ out' = out \o print_list("Refreshed tutorials:", refreshed)
                  \o print_list("Added tutorials:", added)
                  \o print_list("Removed tutorials:", removed)
    /\ work' = [i \in Ids |-> IF InList(i, removed) THEN Absent ELSE work[i]]
    /\ pc' = "reported"
    /\ UNCHANGED <<archive, archive0, work0, versionTxt, plan, to_copy, copyIdx,
                   removeIdx, yyyymmdd, response, error, ops, reruns>>

\* The three print_list calls that end the first cell.
ReportPlan ==
    /\ pc = "planned"
    /\ out' = out \o print_list("Refreshed tutorials:", refreshed)
                  \o print_list("Added tutorials:", added)
                  \o print_list("Removed tutorials:", removed)
    /\ pc' = "reported"
    /\ UNCHANGED <<stores, plan, to_copy, copyIdx, removeIdx, yyyymmdd,
                   response, error, ops, reruns>>

\* The first cell is executed again before the second one.
RerunPlanCell ==
    /\ pc = "reported"
    /\ planRuns < MaxPlanRuns
    /\ pc' = "start"
    /\ UNCHANGED <<stores, plan, to_copy, copyIdx, removeIdx, yyyymmdd,
                   response, error, ops, out, reruns>>

\* Mutant: a missing VERSION.TXT is tolerated and the prompt shows no
\* version.
ReadVersionLenient ==
    /\ pc = "reported"
    /\ yyyymmdd' = (IF versionTxt.exists THEN Prefix(versionTxt.text, 8) ELSE <<>>)
    /\ out' = Append(out, Line("Type 'yes' ... to reset ... to", 0, yyyymmdd'))
    /\ pc' = "confirm"
    /\ UNCHANGED <<stores, plan, to_copy, copyIdx, removeIdx, response, ops,
                   error, reruns>>

\* yyyymmdd = open(VERSION.TXT).read()[:8], then the prompt is printed.
ReadVersion ==
    /\ pc = "reported"
    /\ IF versionTxt.exists
       THEN /\ yyyymmdd' = Prefix(versionTxt.text, 8)
            /\ out' = Append(out, Line("Type 'yes' ... to reset ... to", 0,
                                       Prefix(versionTxt.text, 8)))
            /\ pc' = "confirm"
            /\ error' = error
       ELSE /\ pc' = "aborted"
            /\ error' = "FileNotFoundError"
            /\ UNCHANGED <<yyyymmdd, out>>
    /\ UNCHANGED <<stores, plan, to_copy, copyIdx, removeIdx, response, ops,
                   reruns>>

\* response = input("Proceed"), the echo, the test and to_copy.
Confirm ==
    /\ pc = "confirm"
    /\ \E line \in TypedLines \cup {yyyymmdd} :
        /\ response' = line
        /\ out' = Append(out, Line("The response was", 0, line))
        /\ IF Cancels(line)
           THEN /\ pc' = "aborted"
                /\ error' = "Cancelled"
                /\ to_copy' = to_copy
           ELSE /\ pc' = "apply"
                /\ error' = error
                /\ to_copy' = ToCopy(refreshed, added)
    /\ UNCHANGED <<stores, plan, copyIdx, removeIdx, yyyymmdd, ops, reruns>>

\* The content shutil.copyfile reads at a path.
ReadFile(path) ==
    IF path.dir = WorkDir THEN work[path.base] ELSE archive[path.base]

\* Mutant: the workspace is emptied before an entry is written.
WorkAfterWriteWiping(wk, path, content) ==
    IF path.dir = WorkDir
    THEN [i \in DOMAIN wk |-> IF i = path.base THEN content ELSE Absent]
    ELSE wk

\* A store after `content` is written at `path` (Absent: the entry is
\* removed): the store of the path's directory changes, the other does not.
WorkAfterWrite(wk, path, content) ==
    IF path.dir = WorkDir THEN [wk EXCEPT ![path.base] = content] ELSE wk

ArchiveAfterWrite(arch, path, content) ==
    IF path.dir = ArchiveDir THEN [arch EXCEPT ![path.base] = content] ELSE arch

\* Mutant: the arguments of shutil.copyfile are swapped.
CopyStepSwapped ==
    /\ pc = "apply"
    /\ copyIdx <= Len(to_copy)
    /\ LET base == to_copy[copyIdx]
           src == workspace_path(base)
           dst == archive_path(base)
       IN  /\ out' = Append(out, Line("Updating ", base, <<>>))
           /\ work' = WorkAfterWrite(work, dst, ReadFile(src))
           /\ archive' = ArchiveAfterWrite(archive, dst, ReadFile(src))
           /\ ops' = Append(ops, Op("copy", base, TRUE))
    /\ copyIdx' = copyIdx + 1
    /\ UNCHANGED <<archive0, work0, versionTxt, plan, to_copy,
                   removeIdx, yyyymmdd, response, error, pc, reruns>>

\* One iteration of `for base in to_copy`, the copy succeeding:
\* shutil.copyfile(archive_path(base), workspace_path(base)).
CopyStep ==
    /\ pc = "apply"
    /\ copyIdx <= Len(to_copy)
    /\ LET base == to_copy[copyIdx]
           src == archive_path(base)
           dst == workspace_path(base)
       IN  /\ out' = Append(out, Line("Updating ", base, <<>>))
           /\ work' = WorkAfterWrite(work, dst, ReadFile(src))
           /\ archive' = ArchiveAfterWrite(archive, dst, ReadFile(src))
           /\ ops' = Append(ops, Op("copy", base, TRUE))
    /\ copyIdx' = copyIdx + 1
    /\ UNCHANGED <<archive0, work0, versionTxt, plan, to_copy,
                   removeIdx, yyyymmdd, response, error, pc, reruns>>

\* Mutant: the failure of a copy is swallowed and the loop goes on.
CopyFailSwallowed ==
    /\ pc = "apply"
    /\ copyIdx <= Len(to_copy)
    /\ LET base == to_copy[copyIdx]
           dst == workspace_path(base)
       IN  /\ out' = Append(out, Line("Updating ", base, <<>>))
           /\ ops' = Append(ops, Op("copy", base, FALSE))
           /\ \E content \in {ReadFile(dst), PartialContent(base)} :
                 /\ work' = WorkAfterWrite(work, dst, content)
                 /\ archive' = ArchiveAfterWrite(archive, dst, content)
    /\ copyIdx' = copyIdx + 1
    /\ UNCHANGED <<archive0, work0, versionTxt, plan, to_copy, removeIdx,
                   yyyymmdd, response, pc, error, reruns>>

\* Mutant: the line of a copy is printed after the copy, so that a failing
\* copy prints nothing.
CopyFailSilent ==
    /\ pc = "apply"
    /\ copyIdx <= Len(to_copy)
    /\ LET base == to_copy[copyIdx]
           dst == workspace_path(base)
       IN  /\ ops' = Append(ops, Op("copy", base, FALSE))
           /\ \E content \in {ReadFile(dst), PartialContent(base)} :
                 /\ work' = WorkAfterWrite(work, dst, content)
                 /\ archive' = ArchiveAfterWrite(archive, dst, content)
    /\ pc' = "aborted"
    /\ error' = "OSError"
    /\ UNCHANGED <<archive0, work0, versionTxt, plan, to_copy, copyIdx,
                   removeIdx, yyyymmdd, response, out, reruns>>

\* One iteration of `for base in to_copy`, shutil.copyfile raising OSError.
\* copyfile opens the source, then opens the destination for writing, which
\* creates or truncates it, then copies: a failure before the destination
\* is opened leaves it as it was, a later one leaves it truncated.
CopyFail ==
    /\ pc = "apply"
    /\ copyIdx <= Len(to_copy)
    /\ LET base == to_copy[copyIdx]
           dst == workspace_path(base)
       IN  /\ out' = Append(out, Line("Updating ", base, <<>>))
           /\ ops' = Append(ops, Op("copy", base, FALSE))
           /\ \E content \in {ReadFile(dst), PartialContent(base)} :
                 /\ work' = WorkAfterWrite(work, dst, content)
                 /\ archive' = ArchiveAfterWrite(archive, dst, content)
    /\ pc' = "aborted"
    /\ error' = "OSError"
    /\ UNCHANGED <<archive0, work0, versionTxt, plan, to_copy, copyIdx,
                   removeIdx, yyyymmdd, response, reruns>>

\* Mutant: the remove loop does not wait for the copy loop.
CopyLoopSkipped == TRUE

\* The copy loop has ended.
CopyLoopDone == copyIdx > Len(to_copy)

\* One iteration of `for base in removed`: the line is printed, then
\* os.remove(workspace_path(base)) is evaluated; the name os is looked up
\* among the names the notebook has bound.
RemoveStep ==
    /\ pc = "apply"
    /\ CopyLoopDone
    /\ removeIdx <= Len(removed)
    /\ LET base == removed[removeIdx]
           dst == workspace_path(base)
       IN  /\ out' = Append(out, Line("Removing ", base, <<>>))
           /\ IF "os" \in BoundNames
              THEN /\ work' = WorkAfterWrite(work, dst, Absent)
                   /\ archive' = ArchiveAfterWrite(archive, dst, Absent)
                   /\ ops' = Append(ops, Op("remove", base, TRUE))
                   /\ removeIdx' = removeIdx + 1
                   /\ UNCHANGED <<pc, error>>
              ELSE /\ ops' = Append(ops, Op("remove", base, FALSE))
                   /\ pc' = "aborted"
                   /\ error' = "NameError"
                   /\ UNCHANGED <<work, archive, removeIdx>>
    /\ UNCHANGED <<archive0, work0, versionTxt, plan, to_copy,
                   copyIdx, yyyymmdd, response, reruns>>

\* Mutant: after the loops the cell asks for the confirmation again.
FinishReprompts ==
    /\ pc = "apply"
    /\ CopyLoopDone
    /\ removeIdx > Len(removed)
    /\ pc' = "confirm"
    /\ UNCHANGED <<stores, plan, to_copy, copyIdx, removeIdx, yyyymmdd,
                   response, error, ops, out, reruns>>

\* Both loops have ended: the cell returns.
Finish ==
    /\ pc = "apply"
    /\ CopyLoopDone
    /\ removeIdx > Len(removed)
    /\ pc' = "done"
    /\ UNCHANGED <<stores, plan, to_copy, copyIdx, removeIdx, yyyymmdd,
                   response, error, ops, out, reruns>>

Next ==
    \/ ComputePlan
    \/ ReportPlan
    \/ RerunPlanCell
    \/ ReadVersion
    \/ Confirm
    \/ CopyStep
    \/ CopyFail
    \/ RemoveStep
    \/ Finish

Spec == Init /\ [][Next]_vars

\* Once input() has returned, the second cell runs on without waiting for
\* anything: its loops and its return are taken eventually.
FairSpec == Spec /\ WF_vars(CopyStep \/ CopyFail \/ RemoveStep \/ Finish)

\* ---- a run followed by a re-run from scratch --------------------------------

\* After the run has ended the notebook is run again from scratch, once: the
\* kernel starts empty and the stores are as the first run left them.
RerunFromScratch ==
    /\ pc \in {"done", "aborted"}
    /\ ~rerun
    /\ rerun' = TRUE
    /\ prevPlan' = <<refreshed, added, removed>>
    /\ prevOps' = ops
    /\ prevPc' = pc
    /\ archive0' = archive
    /\ work0' = work
    /\ pc' = "start"
    /\ refreshed' = <<>>
    /\ added' = <<>>
    /\ removed' = <<>>
    /\ to_copy' = <<>>
    /\ copyIdx' = 1
    /\ removeIdx' = 1
    /\ yyyymmdd' = <<>>
    /\ response' = <<>>
    /\ error' = "none"
    /\ ops' = <<>>
    /\ out' = <<>>
    /\ planRuns' = 0
    /\ UNCHANGED <<archive, work, versionTxt>>

NextRerun ==
    \/ ComputePlan
    \/ ReportPlan
    \/ ReadVersion
    \/ Confirm
    \/ CopyStep
    \/ CopyFail
    \/ RemoveStep
    \/ Finish
    \/ RerunFromScratch

RerunSpec == Init /\ [][NextRerun]_vars

\* ---- the plan's operations executed in any order ---------------------------

\* The bodies of the two loops of the second cell, taken for the elements of
\* to_copy and of removed in any order instead of the order of the loops.
\* copyIdx and removeIdx count the copies and the removals that succeeded.

\* The identifiers an operation has been attempted on.
Attempted == { ops[k].base : k \in 1..Len(ops) }

\* The body of `for base in to_copy` for any element that is left, the copy
\* succeeding.
ApplyAnyCopy ==
    /\ pc = "apply"
    /\ \E base \in Elems(to_copy) \ Attempted :
         LET src == archive_path(base)
             dst == workspace_path(base)
         IN  /\ out' = Append(out, Line("Updating ", base, <<>>))
             /\ work' = WorkAfterWrite(work, dst, ReadFile(src))
             /\ archive' = ArchiveAfterWrite(archive, dst, ReadFile(src))
             /\ ops' = Append(ops, Op("copy", base, TRUE))
    /\ copyIdx' = copyIdx + 1
    /\ UNCHANGED <<archive0, work0, versionTxt, plan, to_copy,
                   removeIdx, yyyymmdd, response, error, pc, reruns>>

\* The same, shutil.copyfile raising OSError.
ApplyAnyCopyFail ==
    /\ pc = "apply"
    /\ \E base \in Elems(to_copy) \ Attempted :
         LET dst == workspace_path(base)
         IN  /\ out' = Append(out, Line("Updating ", base, <<>>))
             /\ ops' = Append(ops, Op("copy", base, FALSE))
             /\ \E content \in {ReadFile(dst), PartialContent(base)} :
                   /\ work' = WorkAfterWrite(work, dst, content)
                   /\ archive' = ArchiveAfterWrite(archive, dst, content)
    /\ pc' = "aborted"
    /\ error' = "OSError"
    /\ UNCHANGED <<archive0, work0, versionTxt, plan, to_copy, copyIdx,
                   removeIdx, yyyymmdd, response, reruns>>

\* The body of `for base in removed` for any element that is left.
ApplyAnyRemove ==
    /\ pc = "apply"
    /\ \E base \in Elems(removed) \ Attempted :
         LET dst == workspace_path(base)
         IN  /\ out' = Append(out, Line("Removing ", base, <<>>))
             /\ IF "os" \in BoundNames
                THEN /\ work' = WorkAfterWrite(work, dst, Absent)
                     /\ archive' = ArchiveAfterWrite(archive, dst, Absent)
                     /\ ops' = Append(ops, Op("remove", base, TRUE))
                     /\ removeIdx' = removeIdx + 1
                     /\ UNCHANGED <<pc, error>>
                ELSE /\ ops' = Append(ops, Op("remove", base, FALSE))
                     /\ pc' = "aborted"
                     /\ error' = "NameError"
                     /\ UNCHANGED <<work, archive, removeIdx>>
    /\ UNCHANGED <<archive0, work0, versionTxt, plan, to_copy,
                   copyIdx, yyyymmdd, response, reruns>>

NextAnyOrder ==
    \/ ComputePlan
    \/ ReportPlan
    \/ ReadVersion
    \/ Confirm
    \/ ApplyAnyCopy
    \/ ApplyAnyCopyFail
    \/ ApplyAnyRemove
    \/ Finish

AnyOrderSpec == Init /\ [][NextAnyOrder]_vars

\* ---- vocabulary of the properties ----------------------------------------

Excluded == {InitBase, ZzzBase}

\* The reference set: the identifiers of the archive when the run started.
ReferenceSet == { i \in Ids : archive0[i] # Absent }

\* The working set: the identifiers of the workspace when the run started,
\* without the exclusion list.
WorkingSet == { i \in Ids : work0[i] # Absent } \ Excluded

Planned == pc # "start"

\* A confirmation line has been read and tested.
Answered ==
    \/ pc \in {"apply", "done"}
    \/ pc = "aborted" /\ error # "FileNotFoundError"

\* The run went past the confirmation test.
Proceeded == Answered /\ error # "Cancelled"

Terminal == pc \in {"done", "aborted"}

StoresUntouched == work = work0 /\ archive = archive0

\* ---- C1 ----
\* C1: once the plan is computed, refreshed, added and removed are pairwise
\* disjoint and together hold exactly the identifiers of the reference set
\* and of the working set.
C1_PlanPartitionsUnion ==
    Planned =>
        /\ Elems(refreshed) \cap Elems(added) = {}
        /\ Elems(refreshed) \cap Elems(removed) = {}
        /\ Elems(added) \cap Elems(removed) = {}
        /\ Elems(refreshed) \cup Elems(added) \cup Elems(removed)
               = ReferenceSet \cup WorkingSet

C1_Witness ==
    Planned /\ refreshed # <<>> /\ added # <<>> /\ removed # <<>>

\* ---- C2 ----
\* C2: refreshed is the intersection of the working set and the reference
\* set, added is the reference set minus the working set, removed is the
\* working set minus the reference set, the working set being the workspace
\* listing without the two excluded documents.
C2_PlanIsSetAlgebra ==
    Planned =>
        /\ Elems(refreshed) = WorkingSet \cap ReferenceSet
        /\ Elems(added) = ReferenceSet \ WorkingSet
        /\ Elems(removed) = WorkingSet \ ReferenceSet

\* The example: reference {A, B}, working {B, C} with A, B, C = 1, 3, 5.
C2_Witness ==
    /\ Planned
    /\ ReferenceSet = {1, 3}
    /\ { i \in Ids : work0[i] # Absent } = {3, 5}
    /\ refreshed = <<3>>
    /\ added = <<1>>
    /\ removed = <<5>>

\* ---- C3 ----
\* C3 (as claimed): the two excluded basenames never appear in refreshed,
\* added or removed, whatever the two stores contain.
C3_ExcludedNeverPlanned ==
    Planned =>
        Excluded \cap (Elems(refreshed) \cup Elems(added) \cup Elems(removed)) = {}

\* ---- C4 ----
\* C4 (as claimed): the two excluded documents of the workspace are never
\* written, overwritten or deleted by the run, and no file operation is
\* attempted on them.
C4_ExcludedNeverTouched ==
    /\ \A e \in Excluded : work[e] = work0[e]
    /\ \A k \in 1..Len(ops) : ops[k].base \notin Excluded

\* ---- C5 ----
\* C5: when the confirmation line differs from the expected token the run
\* is aborted with the cancellation, no copy or delete has been attempted
\* and both stores are as they were before the run.
C5_CancelLeavesStores ==
    (Answered /\ response # Yes) =>
        /\ pc = "aborted"
        /\ error = "Cancelled"
        /\ ops = <<>>
        /\ StoresUntouched

C5_Witness ==
    /\ Answered
    /\ response # Yes
    /\ refreshed # <<>>
    /\ added # <<>>
    /\ removed # <<>>

\* ---- C6 ----
\* C6 (as claimed): the run proceeds past the confirmation exactly when the
\* line equals the computed version string.
C6_VersionIsToken ==
    Answered => (Proceeded <=> response = yyyymmdd)

\* C6 (amended): the run proceeds past the confirmation only if the line is
\* the literal "yes", every other line cancels, and the computed version
\* string, the first 8 characters of the version marker, is not the token.
C6_YesIsToken ==
    Answered =>
        /\ Proceeded => response = Yes
        /\ response # Yes => (pc = "aborted" /\ error = "Cancelled")
        /\ Len(yyyymmdd) = (IF Len(versionTxt.text) < 8
                            THEN Len(versionTxt.text) ELSE 8)
        /\ \A k \in 1..Len(yyyymmdd) : yyyymmdd[k] = versionTxt.text[k]
        /\ yyyymmdd # Yes

C6_Witness ==
    /\ Proceeded
    /\ Len(versionTxt.text) > 8
    /\ response # yyyymmdd

\* ---- C7 ----
\* C7: the run proceeds past the confirmation if and only if the line is
\* exactly "yes"; "Yes", "YES", "yes " and the displayed version string all
\* cancel, and the version string appears in the prompt only.
C7_ExactYesOnly ==
    Answered =>
        /\ Proceeded <=> response = Yes
        /\ response \in {<<"Y", "e", "s">>, <<"Y", "E", "S">>,
                         <<"y", "e", "s", " ">>, yyyymmdd}
              => (pc = "aborted" /\ error = "Cancelled" /\ to_copy = <<>>)
        /\ \E k \in 1..Len(out) :
              out[k].text = "Type 'yes' ... to reset ... to" /\ out[k].str = yyyymmdd

C7_Witness ==
    /\ Answered
    /\ response = yyyymmdd
    /\ pc = "aborted"
    /\ refreshed # <<>>

\* ---- C8 ----
\* C8 (as claimed): a confirmed run that meets no I/O failure ends with the
\* archive's content in the workspace for every identifier of refreshed and
\* added, and with every identifier of removed absent from the workspace.
C8_ApplyCopiesAndDeletes ==
    (Proceeded /\ Terminal /\ error # "OSError") =>
        /\ \A b \in Elems(refreshed) \cup Elems(added) : work[b] = archive0[b]
        /\ \A b \in Elems(removed) : work[b] = Absent

\* ---- C9 ----
\* C9: when a deletion is attempted every copy of to_copy has been
\* performed before it, and no copy follows it.
C9_CopiesBeforeDeletes ==
    \A k \in 1..Len(ops) :
        ops[k].op = "remove" =>
            /\ k > Len(to_copy)
            /\ \A j \in 1..Len(to_copy) : ops[j] = Op("copy", to_copy[j], TRUE)
            /\ \A j \in (k + 1)..Len(ops) : ops[j].op # "copy"

C9_Witness ==
    /\ \E k \in 1..Len(ops) : ops[k].op = "remove"
    /\ refreshed # <<>>
    /\ added # <<>>

\* ---- C10 ----
\* C10: when the reference set and the working set are the same, refreshed
\* is that whole set and added and removed are empty; a confirmed run that
\* meets no I/O failure then ends in success after exactly one overwriting
\* copy per identifier and no deletion.
C10_IdenticalSetsRefreshOnly ==
    (Planned /\ ReferenceSet = WorkingSet) =>
        /\ refreshed = SortedIds(ReferenceSet)
        /\ added = <<>>
        /\ removed = <<>>
        /\ (Proceeded /\ Terminal /\ error # "OSError") =>
              /\ pc = "done"
              /\ error = "none"
              /\ Len(ops) = Cardinality(ReferenceSet)
              /\ \A k \in 1..Len(ops) : ops[k] = Op("copy", refreshed[k], TRUE)
              /\ \A b \in ReferenceSet :
                    work0[b] # Absent /\ work[b] = archive0[b]

C10_Witness ==
    /\ pc = "done"
    /\ ReferenceSet = WorkingSet
    /\ Cardinality(ReferenceSet) >= 2
    /\ Len(ops) = Cardinality(ReferenceSet)

\* ---- C11 ----
\* C11: when the first cell is executed again on unchanged stores, the
\* three lists it computes are the lists of the execution before, element
\* for element, whatever order the directory listings come in.
C11_RerunSamePlan ==
    (planRuns >= 2 /\ pc # "start") => <<refreshed, added, removed>> = prevPlan

C11_Witness ==
    /\ planRuns >= 2
    /\ pc = "planned"
    /\ Len(added) >= 2
    /\ Len(refreshed) >= 1

\* ---- C12 ----
\* C12: a failed copy or delete is the last operation attempted; the run is
\* then aborted with that error, every operation before it succeeded and
\* was attempted once, and what the earlier copies wrote is still in the
\* workspace; the entry of the failed operation is as it was or, for a copy,
\* truncated.
C12_FailureAbortsKeepsChanges ==
    \A k \in 1..Len(ops) :
        ~ops[k].ok =>
            /\ k = Len(ops)
            /\ pc = "aborted"
            /\ error = (IF ops[k].op = "copy" THEN "OSError" ELSE "NameError")
            /\ \/ work[ops[k].base] = work0[ops[k].base]
               \/ ops[k].op = "copy" /\ work[ops[k].base] = PartialContent(ops[k].base)
            /\ \A j \in 1..(k - 1) :
                  /\ ops[j].ok
                  /\ ops[j].base # ops[k].base
                  /\ ops[j].op = "copy" => work[ops[j].base] = archive0[ops[j].base]

C12_Witness ==
    /\ Len(ops) >= 3
    /\ ~ops[Len(ops)].ok
    /\ ops[Len(ops)].op = "copy"
    /\ work # work0

\* ---- C13 ----
\* C13: in every reachable state the released archive has the content it
\* had when the run started.
C13_ArchiveReadOnly == archive = archive0

C13_Witness ==
    /\ Len(ops) >= 2
    /\ ops[1].ok
    /\ work # work0
    /\ archive = archive0

\* ---- C14 ----
\* C14: after the plan is computed and reported, and until a confirmation
\* line is read, no file operation has been attempted and both stores are
\* as they were.
C14_PlanAndReportPure ==
    (planRuns >= 1 /\ pc \in {"start", "planned", "reported", "confirm"}) =>
        /\ work = work0
        /\ archive = archive0
        /\ ops = <<>>

C14_Witness ==
    /\ pc = "confirm"
    /\ removed # <<>>
    /\ added # <<>>
    /\ refreshed # <<>>

\* ---- C15 ----
\* The number of lines print_list writes for a list.
SectionLen(items) == IF items = <<>> THEN 3 ELSE Len(items) + 2

\* The console holds, from line p on, the heading, then the placeholder
\* when the list is empty and otherwise one line per element in list order,
\* then the empty line.
SectionAt(p, heading, items) ==
    /\ out[p] = Line(heading, 0, <<>>)
    /\ IF items = <<>>
       THEN out[p + 1] = Line(" (None)", 0, <<>>)
       ELSE \A k \in 1..Len(items) :
               /\ out[p + k] = Line("- ", items[k], <<>>)
               /\ out[p + k].text # " (None)"
    /\ out[p + SectionLen(items) - 1] = Line("", 0, <<>>)

\* C15: the report ends the console with the three sections in the order
\* refreshed, added, removed; each has its heading, the "(None)" placeholder
\* exactly when its list is empty, and otherwise one line per identifier in
\* list order.
C15_ReportListsOrPlaceholder ==
    pc = "reported" =>
        LET total == SectionLen(refreshed) + SectionLen(added) + SectionLen(removed)
            first == Len(out) - total + 1
        IN  /\ Len(out) = planRuns * total
            /\ SectionAt(first, "Refreshed tutorials:", refreshed)
            /\ SectionAt(first + SectionLen(refreshed), "Added tutorials:", added)
            /\ SectionAt(first + SectionLen(refreshed) + SectionLen(added),
                         "Removed tutorials:", removed)

C15_Witness ==
    /\ pc = "reported"
    /\ Len(refreshed) >= 2
    /\ added = <<>>
    /\ removed # <<>>

\* ---- C16 ----
Rank(p) ==
    CASE p = "start" -> 0
      [] p = "planned" -> 1
      [] p = "reported" -> 2
      [] p = "confirm" -> 3
      [] p = "apply" -> 4
      [] OTHER -> 5

\* A step follows the order plan, report, confirm, apply, end; only a new
\* execution of the first cell, before any confirmation, starts over.
InPhaseOrder ==
    pc' # pc =>
        \/ Rank(pc') = Rank(pc) + 1 /\ pc' # "aborted"
        \/ pc' = "aborted" /\ pc \in {"reported", "confirm", "apply"}
        \/ pc' = "start" /\ pc = "reported"

\* C16: once a confirmation line is read the run reaches a terminal
\* outcome, success (no error) or abort (an error), which it never leaves,
\* and no step goes back to an earlier phase.
C16_OneTerminalOutcome ==
    /\ Answered ~> Terminal
    /\ [](pc = "done" => error = "none")
    /\ [](pc = "aborted" => error # "none")
    /\ [][/\ InPhaseOrder
          /\ Answered => (Answered' /\ Rank(pc') >= Rank(pc))
          /\ Terminal => (pc' = pc /\ error' = error)]_vars

C16_Witness ==
    /\ pc = "done"
    /\ Len(ops) >= 2
    /\ planRuns = 2

\* ---- C17 ----
\* The identifiers an operation of a kind has succeeded on.
Performed(kind) ==
    { ops[k].base : k \in { j \in 1..Len(ops) : ops[j].ok /\ ops[j].op = kind } }

\* C17: when the operations of the plan have all succeeded, in whatever
\* order they were executed, the workspace is the one the order of the code
\* gives: removed entries absent, refreshed and added entries with the
\* archive's content, every other entry as before.  At every point of the
\* execution the workspace is determined by which operations have
\* succeeded, not by their order (a failed copy aside, which may leave its
\* entry truncated).
C17_AnyOrderSameStore ==
    /\ pc = "done" =>
          work = [i \in Ids |->
                    IF InList(i, removed) THEN Absent
                    ELSE IF InList(i, ToCopy(refreshed, added)) THEN archive0[i]
                    ELSE work0[i]]
    /\ \A i \in Ids :
          \/ work[i] = (IF i \in Performed("remove") THEN Absent
                        ELSE IF i \in Performed("copy") THEN archive0[i]
                        ELSE work0[i])
          \/ /\ \E k \in 1..Len(ops) : ~ops[k].ok /\ ops[k] = Op("copy", i, FALSE)
             /\ work[i] = PartialContent(i)

\* A successful run whose copies went in another order than to_copy.
C17_Witness ==
    /\ pc = "done"
    /\ Len(to_copy) >= 3
    /\ Len(ops) = Len(to_copy)
    /\ ops[1].base = to_copy[3]
    /\ ops[3].base = to_copy[2]
    /\ work # work0

\* ---- C18 ----
\* The identifiers the run before completed an operation of a kind on.
Completed(kind) ==
    { prevOps[k].base : k \in { j \in 1..Len(prevOps) :
                                   prevOps[j].ok /\ prevOps[j].op = kind } }

\* The run before was aborted inside the apply loops.
AbortedPartWay == \E k \in 1..Len(prevOps) : ~prevOps[k].ok

\* C18 (as claimed): in a re-run after a run aborted part-way, the new plan
\* is no larger than the one before, and its added and removed lists are
\* the ones before without the identifiers whose copy or removal completed.
C18_RerunShrinksByCompleted ==
    (rerun /\ Planned /\ AbortedPartWay) =>
        /\ Len(refreshed) + Len(added) + Len(removed)
              <= Len(prevPlan[1]) + Len(prevPlan[2]) + Len(prevPlan[3])
        /\ Elems(added) = Elems(prevPlan[2]) \ Completed("copy")
        /\ Elems(removed) = Elems(prevPlan[3]) \ Completed("remove")

\* The identifier whose copy failed in the run before, if any.
FailedCopy ==
    { prevOps[k].base : k \in { j \in 1..Len(prevOps) :
                                   ~prevOps[j].ok /\ prevOps[j].op = "copy" } }

\* What does hold (not a claim): the new plan is no larger, added and
\* removed are sublists of the ones before; outside the two excluded
\* identifiers added has lost the completed copies and, when the failed copy
\* left a truncated file, its identifier too.
C18_RerunShrinksOutsideExcluded ==
    (rerun /\ Planned /\ AbortedPartWay) =>
        /\ Len(refreshed) + Len(added) + Len(removed)
              <= Len(prevPlan[1]) + Len(prevPlan[2]) + Len(prevPlan[3])
        /\ Elems(added) \subseteq Elems(prevPlan[2])
        /\ Elems(added) \ Excluded
              \subseteq (Elems(prevPlan[2]) \ Completed("copy")) \ Excluded
        /\ (Elems(prevPlan[2]) \ (Completed("copy") \cup FailedCopy)) \ Excluded
              \subseteq Elems(added) \ Excluded
        /\ Elems(removed) = Elems(prevPlan[3]) \ Completed("remove")

\* ---- C19 ----
\* The lines the apply loops have printed.
ApplyLines ==
    SelectSeq(out, LAMBDA l : l.text \in {"Updating ", "Removing "})

LineOf(o) ==
    Line(IF o.op = "copy" THEN "Updating " ELSE "Removing ", o.base, <<>>)

\* C19 (as claimed): the console holds exactly one line per file operation
\* performed, in the order performed (runs ended by the unbound name os,
\* see C8, left aside).
C19_LinePerPerformedOp ==
    error # "NameError" =>
        LET performed == SelectSeq(ops, LAMBDA o : o.ok)
        IN  ApplyLines = [k \in 1..Len(performed) |-> LineOf(performed[k])]

\* C19 (amended): the console holds exactly one line per file operation
\* attempted, in the order attempted; an operation that fails has its line
\* too, since the line is printed before the operation.
C19_LinePerAttemptedOp ==
    ApplyLines = [k \in 1..Len(ops) |-> LineOf(ops[k])]

C19_Witness ==
    /\ Len(ops) >= 3
    /\ ~ops[Len(ops)].ok
    /\ error = "OSError"

\* ---- C20 ----
\* C20: every step of computing the plan ends with the plan computed and
\* no error; with both sets empty the three lists are empty, with an empty
\* reference set removed is the whole working set, with an empty working
\* set added is the whole reference set.
C20_EmptyInputs ==
    /\ [][pc = "start" => (pc' = "planned" /\ error' = "none")]_vars
    /\ [](Planned =>
          /\ (ReferenceSet = {} /\ WorkingSet = {}) =>
                (refreshed = <<>> /\ added = <<>> /\ removed = <<>>)
          /\ ReferenceSet = {} =>
                (refreshed = <<>> /\ added = <<>> /\ removed = SortedIds(WorkingSet))
          /\ WorkingSet = {} =>
                (refreshed = <<>> /\ removed = <<>> /\ added = SortedIds(ReferenceSet)))

C20_Witness ==
    /\ pc = "planned"
    /\ ReferenceSet = {}
    /\ Cardinality(WorkingSet) >= 2
    /\ work0[InitBase] # Absent
    /\ Len(removed) = Cardinality(WorkingSet)

\* ---- C21 ----
\* C21 (as claimed): when a run has ended in success, the identifiers of
\* the workspace outside the exclusion list are the reference set, each
\* with the archive's content; a re-run right after it computes refreshed =
\* the reference set, added and removed empty.
C21_SuccessThenInSync ==
    /\ (~rerun /\ pc = "done") =>
          /\ { i \in Ids : work[i] # Absent } \ Excluded = ReferenceSet
          /\ \A i \in ReferenceSet : work[i] = archive[i]
    /\ (rerun /\ prevPc = "done" /\ Planned) =>
          /\ refreshed = SortedIds(ReferenceSet)
          /\ added = <<>>
          /\ removed = <<>>

\* The same with the two excluded identifiers left out of the reference
\* set (not a claim: it shows that C21 fails through them only).
C21_SuccessThenInSyncOutsideExcluded ==
    /\ (~rerun /\ pc = "done") =>
          /\ { i \in Ids : work[i] # Absent } \ Excluded = ReferenceSet \ Excluded
          /\ \A i \in ReferenceSet : work[i] = archive[i]
    /\ (rerun /\ prevPc = "done" /\ Planned) =>
          /\ refreshed = SortedIds(ReferenceSet \ Excluded)
          /\ added = SortedIds(ReferenceSet \cap Excluded)
          /\ removed = <<>>

\* ---- C22 ----
PlanIds == Elems(refreshed) \cup Elems(added) \cup Elems(removed)

\* C22: once the plan is computed, every workspace entry whose identifier
\* is in none of the three lists has, throughout the run, the presence and
\* the content it had when the run started, and no operation is attempted
\* on it.
C22_OutsidePlanUntouched ==
    Planned =>
        /\ \A i \in Ids \ PlanIds : work[i] = work0[i]
        /\ \A k \in 1..Len(ops) : ops[k].base \in PlanIds

C22_Witness ==
    /\ Terminal
    /\ Len(ops) >= 2
    /\ work # work0
    /\ \E i \in Ids \ PlanIds : work0[i] # Absent

\* ---- C23 ----
\* The identifiers the report has listed to the user.
Listed == { out[k].base : k \in { j \in 1..Len(out) : out[j].text = "- " } }

\* C23: every identifier a copy or a removal is attempted on was listed in
\* the report, and the lists applied are the lists reported: to_copy and
\* removed hold exactly the listed identifiers.
C23_AppliedPlanIsReportedPlan ==
    /\ \A k \in 1..Len(ops) : ops[k].base \in Listed
    /\ pc \in {"apply", "done"} => Elems(to_copy) \cup Elems(removed) = Listed

C23_Witness ==
    /\ Len(ops) >= 3
    /\ removed # <<>>
    /\ \A k \in 1..Len(ops) : ops[k].base \in Listed

\* ---- C24 ----
\* C24: with nothing else writing to the stores, every copy still to be
\* attempted has its source in the archive and every removal still to be
\* attempted has its target in the workspace.
C24_OperationsHaveTargets ==
    pc = "apply" =>
        /\ \A k \in copyIdx..Len(to_copy) : archive[to_copy[k]] # Absent
        /\ \A k \in removeIdx..Len(removed) : work[removed[k]] # Absent

C24_Witness ==
    /\ pc = "apply"
    /\ copyIdx > Len(to_copy)
    /\ Len(to_copy) >= 2
    /\ removeIdx <= Len(removed)

\* ---- C25 ----
\* C25: no identifier is the target of two attempted operations, and the
\* operations attempted are never more than the elements of the three
\* lists.
C25_OneOperationPerIdentifier ==
    /\ \A j, k \in 1..Len(ops) : j # k => ops[j].base # ops[k].base
    /\ Len(ops) <= Len(refreshed) + Len(added) + Len(removed)

C25_Witness ==
    /\ Len(ops) >= 3
    /\ refreshed # <<>>
    /\ added # <<>>
    /\ ops[Len(ops)].op = "remove"

\* ---- C26 ----
\* C26: when the version marker cannot be read the run is aborted with the
\* error of open(), before the prompt is printed or a line is read and
\* before any file operation; both stores are unchanged.
C26_UnreadableVersionAborts ==
    /\ error = "FileNotFoundError" =>
          /\ pc = "aborted"
          /\ response = <<>>
          /\ \A k \in 1..Len(out) :
                out[k].text \notin {"Type 'yes' ... to reset ... to", "The response was"}
          /\ ops = <<>>
          /\ StoresUntouched
    /\ ~versionTxt.exists => pc \in {"start", "planned", "reported", "aborted"}
    /\ (~versionTxt.exists /\ pc = "aborted") => error = "FileNotFoundError"

C26_Witness ==
    /\ error = "FileNotFoundError"
    /\ refreshed # <<>>
    /\ added # <<>>
    /\ removed # <<>>

\* ---- C27 ----
Ascending(list) == \A j, k \in 1..Len(list) : j < k => list[j] < list[k]

\* C27: each of the three lists is strictly ascending, hence without a
\* duplicate, and the copies are attempted in the order of refreshed
\* followed by added.
C27_SortedListsCopyOrder ==
    Planned =>
        /\ Ascending(refreshed)
        /\ Ascending(added)
        /\ Ascending(removed)
        /\ LET copies == SelectSeq(ops, LAMBDA o : o.op = "copy")
           IN  /\ Len(copies) <= Len(refreshed) + Len(added)
               /\ \A k \in 1..Len(copies) :
                     copies[k].base = (refreshed \o added)[k]

C27_Witness ==
    /\ Len(refreshed) >= 2
    /\ Len(added) >= 2
    /\ Len(ops) = Len(refreshed) + Len(added)
    /\ added[1] < refreshed[1]

====
